---- MODULE Spec2Model ----
(***************************************************************************)
(* Model of the star visualizer's render loop (src/components/Visualizer   *)
(* .tsx), the application state it is fed from (src/App.tsx) and the       *)
(* control panel that edits that state (src/components/Controls.tsx).      *)
(*                                                                         *)
(* Units.  Times are milliseconds. Every time of the model is a multiple   *)
(* of Tick, so that a time fraction elapsed/duration is a whole number of  *)
(* TicksPerTransition-ths and the eased progress 1 - (1 - t)^3 is a whole  *)
(* number of PDen-ths: progress is stored as that numerator (PDen is 1).   *)
(* localSiderealTime is stored in millidegrees (360000 is 360 degrees),    *)
(* timeSpeed in halves (the slider's step), lightPollutionLimit and        *)
(* observationalPower in hundredths, magnitudes in thousandths.            *)
(*                                                                         *)
(* React.  A setState call queues an update; the queued updates are        *)
(* applied by the next render (Commit), which also runs the effects whose  *)
(* dependencies changed.  The updates of this program are plain values (or *)
(* a toggle applied to the latest value), so a queue is represented by its *)
(* last element: <<>> when empty, <<v>> otherwise.                         *)
(***************************************************************************)
EXTENDS Integers, Sequences, FiniteSets, TLC

VARIABLES
    phase,          \* "rendered" (first render done, effects not yet run), "mounted", "unmounted"
    now,            \* performance.now(), ms
    mode,           \* App state: mode
    observationalPower, \* App state, hundredths
    activeFilters,  \* App state: set of spectral types
    observer,       \* App state: ObserverState
    visibleCount,   \* App state: visibleCount
    stars,          \* App state: stars
    dpr,            \* Visualizer state: dpr
    updates,        \* queued setState calls, one slot per state hook
    observerRef,    \* Visualizer: observerRef.current
    transitionRef,  \* Visualizer: transitionRef.current
    lastTimeRef,    \* Visualizer: lastTimeRef.current
    animationRef,   \* Visualizer: animationRef.current (0: undefined)
    rafQueue,       \* the host's pending requestAnimationFrame callbacks
    events,         \* history: number of user events so far
    frameTime,      \* history: timestamp of the latest frame (0: none yet)
    framesSinceReset, \* history: a frame ran since the transition was last reset
    lastOp          \* history: what the last step did

vars == <<phase, now, mode, observationalPower, activeFilters, observer,
          visibleCount, stars, dpr, updates, observerRef, transitionRef,
          lastTimeRef, animationRef, rafQueue, events, frameTime,
          framesSinceReset, lastOp>>

----------------------------------------------------------------------------
(* Bounds of the model *)

\* The clock stops here.
MaxTime == 4500
\* Number of user events (navigation clicks, control changes) in a run.
MaxEvents == 2
\* Number of time steps a transition lasts (the granularity of time).
TicksPerTransition == 2
\* A frame's timestamp is the time its frame began: it may be up to this
\* many ticks earlier than performance.now() read by code that ran since.
MaxLagTicks == 1

----------------------------------------------------------------------------
(* Constants of the program *)

\* transitionRef.duration
duration == 1500

Tick == duration \div TicksPerTransition
PDen == TicksPerTransition * TicksPerTransition * TicksPerTransition

SKY == "SKY"
CLASSIFICATION == "CLASSIFICATION"
GALAXY == "GALAXY"
HR_DIAGRAM == "HR_DIAGRAM"
\* the modes the navigation offers (CENSUS is never offered)
navItems == {SKY, CLASSIFICATION, GALAXY, HR_DIAGRAM}

SpectralType == {"O", "B", "A", "F", "G", "K", "M"}

Min(a, b) == IF a < b THEN a ELSE b
Max(a, b) == IF a > b THEN a ELSE b

\* JavaScript's %: the result has the sign of the dividend.
JsRem(a, b) == IF a >= 0 THEN a % b ELSE 0 - ((0 - a) % b)

\* Not-a-number, what Math.asin returns for an argument outside [-1,1]; as
\* an altitude in degrees it is the one value no altitude has.
NaN == 360
\* JavaScript's <: false when its left operand is NaN (the right operands of
\* the program's comparisons with an altitude are literals)
Lt(a, b) == a # NaN /\ a < b

----------------------------------------------------------------------------
(* Inputs of the model *)

\* the catalog generateStars returns: sorted ascending by apparentMagnitude
Catalog == << [id |-> 0, spectralType |-> "M", apparentMagnitude |-> 3400] >>
\* values the controls are moved to
Latitudes == {60}
TimeSpeeds == {0, 20}
LightPollutionLimits == {10}
ObservationalPowers == {35}
FilterButtons == {"M"}
DevicePixelRatios == {1, 2}
\* altitudes (degrees) the horizontal-coordinate computation yields for a star
AltDegs == {-10, 20}
\* the clock advances by a tick, or by a long gap (the page was hidden)
ClockSteps == {Tick, 2 * duration}

----------------------------------------------------------------------------
(* Visualizer: derived limits *)

instrumentLimit(power) == 3000 + (power * 120)
pollutionLimit(lpl) == 2500 + (lpl * 45)
effectiveLimit(power, lpl) ==
    Min(instrumentLimit(power), pollutionLimit(lpl) + (power * 50))

----------------------------------------------------------------------------
(* Visualizer: the render callback's arithmetic *)

\* newLST without the wrap at 360 degrees
newLST_NoWrap(obs, delta) ==
    obs.localSiderealTime + (delta * 5 * obs.timeSpeed)

\* newLST of the frame, millidegrees
newLST(obs, delta) ==
    JsRem(obs.localSiderealTime + (delta * 5 * obs.timeSpeed), 360000)

\* (1 - t)^3: the easing with its "1 -" dropped
EaseOutCubic_Inverted(tTicks) ==
    LET r == TicksPerTransition - tTicks IN r * r * r

\* 1 - (1 - t)^3 for t = tTicks / TicksPerTransition, in PDen-ths
EaseOutCubic(tTicks) ==
    LET r == TicksPerTransition - tTicks IN PDen - (r * r * r)

\* the transition math without Math.min(..., 1)
TransitionMath_NoClamp(tr, time) ==
    IF tr.progress < PDen
    THEN LET elapsed == time - tr.startTime
             t == elapsed \div Tick
         IN  [tr EXCEPT !.progress = EaseOutCubic(t)]
    ELSE tr

\* "2. Transition Math": the progress stored by a frame at `time`
TransitionMath(tr, time) ==
    IF tr.progress < PDen
    THEN LET elapsed == time - tr.startTime
             t == Min(elapsed \div Tick, TicksPerTransition)
         IN  [tr EXCEPT !.progress = EaseOutCubic(t)]
    ELSE tr

\* extinctionFactor, in (300 * PDen)-ths
extinctionFactor(m, tr, altDeg) ==
    LET skyExtinction == IF Lt(altDeg, 30) THEN 300 - (7 * (30 - altDeg)) ELSE 300
    IN  IF m = SKY \/ m = CLASSIFICATION
        THEN skyExtinction * PDen
        ELSE IF tr.sourceMode = SKY
             THEN (skyExtinction * PDen) + ((300 - skyExtinction) * tr.progress)
             ELSE 300 * PDen

\* the horizon fade without Math.max(0, ...)
horizonFade_NoFloor(m, tr, altDeg) ==
    IF Lt(altDeg, 0) /\ (m = SKY \/ tr.targetMode = SKY)
    THEN 5 + altDeg
    ELSE 5

\* horizonFade, in fifths
horizonFade(m, tr, altDeg) ==
    IF Lt(altDeg, 0) /\ (m = SKY \/ tr.targetMode = SKY)
    THEN Max(0, 5 + altDeg)
    ELSE 5

\* the magnitude fade without the band of one magnitude below the limit
magnitudeFade_NoBand(star, limit) == 1000

\* the magnitude fade, in thousandths
magnitudeFade(star, limit) ==
    IF star.apparentMagnitude > limit - 1000
    THEN limit - star.apparentMagnitude
    ELSE 1000

\* alpha of a star that passed the culls, in (1000 * 300 * PDen * 5)-ths
alpha(star, cl, tr, altDeg) ==
    magnitudeFade(star, cl.effectiveLimit)
        * extinctionFactor(cl.mode, tr, altDeg)
        * horizonFade(cl.mode, tr, altDeg)

\* one whole of alpha, in the unit of alpha
AlphaOne == 1000 * 300 * PDen * 5

\* the star loop without the magnitude check of the global filter checks
Drawn_NoMagnitudeCull(star, cl, tr, altDeg) ==
    /\ star.spectralType \in cl.activeFilters
    /\ ~(/\ tr.progress >= PDen
         /\ (cl.mode = SKY \/ cl.mode = CLASSIFICATION)
         /\ Lt(altDeg, -5))
    /\ ~(alpha(star, cl, tr, altDeg) <= 0)

\* the star reaches visibleCount++ and the draw calls
Drawn(star, cl, tr, altDeg) ==
    /\ star.spectralType \in cl.activeFilters
    /\ ~(star.apparentMagnitude > cl.effectiveLimit)
    /\ ~(/\ tr.progress >= PDen
         /\ (cl.mode = SKY \/ cl.mode = CLASSIFICATION)
         /\ Lt(altDeg, -5))
    /\ ~(alpha(star, cl, tr, altDeg) <= 0)

\* visibleCount++ moved up, ahead of the horizon cull and the alpha check
CountVisible_BeforeAlphaCheck(cl, tr, altDegs) ==
    Cardinality({i \in DOMAIN cl.stars :
                    /\ cl.stars[i].spectralType \in cl.activeFilters
                    /\ ~(cl.stars[i].apparentMagnitude > cl.effectiveLimit)})

\* visibleCount at the end of stars.forEach
CountVisible(cl, tr, altDegs) ==
    Cardinality({i \in DOMAIN cl.stars : Drawn(cl.stars[i], cl, tr, altDegs[i])})

\* getScreenPos(m) is computed from the altitude (the polar projection of
\* Sky, Classification and the default case)
Polar(m) == m # HR_DIAGRAM /\ m # GALAXY

\* currentX, currentY: NaN when the position of the source or of the target
\* mode is computed from a NaN altitude (NaN times anything, NaN plus
\* anything is NaN), a number otherwise
currentX(tr, altDeg) ==
    IF altDeg = NaN /\ (Polar(tr.sourceMode) \/ Polar(tr.targetMode))
    THEN "NaN" ELSE "number"

\* the draw calls of the frame, in the order of stars.forEach: for each star
\* that reaches them, ctx.globalAlpha = alpha and ctx.arc(currentX, ...)
DrawCommands(cl, tr, altDegs) ==
    LET reached == SelectSeq([i \in 1..Len(cl.stars) |-> i],
                             LAMBDA i : Drawn(cl.stars[i], cl, tr, altDegs[i]))
    IN  [k \in 1..Len(reached) |->
            [id |-> cl.stars[reached[k]].id,
             globalAlpha |-> alpha(cl.stars[reached[k]], cl, tr, altDegs[reached[k]]),
             arc |-> currentX(tr, altDegs[reached[k]])]]

----------------------------------------------------------------------------
(* The host's frame requests *)

Handles(q) == {q[i].id : i \in DOMAIN q}
\* requestAnimationFrame returns a handle no request has had; handles are
\* opaque, so the model takes the least one that is neither pending nor held
NewHandle(q, held) ==
    CHOOSE h \in 1..(Len(q) + 2) :
        /\ h \notin Handles(q) \cup {held}
        /\ \A g \in 1..(h - 1) : g \in Handles(q) \cup {held}
requestAnimationFrame(q, held, cl) ==
    Append(q, [id |-> NewHandle(q, held), render |-> cl])
cancelAnimationFrame(q, h) == SelectSeq(q, LAMBDA e : e.id # h)

NoUpdates == [mode |-> <<>>, observationalPower |-> <<>>, activeFilters |-> <<>>,
              observer |-> <<>>, visibleCount |-> <<>>, stars |-> <<>>, dpr |-> <<>>]

\* the state a hook will have once the queued update is applied
Latest(slot, committed) == IF slot = <<>> THEN committed ELSE slot[1]

\* history record of a step: the operation, whether the mode effect's
\* body ran ("none": it did not; "same": its guard was false; "idle", "mid":
\* it reset a transition that had / had not completed), whether the loop
\* effect's cleanup cancelled a pending request, and who wrote the observer
\* value a render applied or a frame queued ("" when none); for a frame,
\* "first" when it was the first frame, "eased" when it stored a progress,
\* and whether its new sidereal time passed 360 degrees; for a render,
\* "restart" when the loop effect ran again; for a frame, the altitudes its
\* horizontal-coordinate computation yielded, star by star, and the draw
\* calls it made
Did(op) == [op |-> op, modeEffect |-> "none", cancelled |-> FALSE, observerBy |-> "",
            note |-> "", wrapped |-> FALSE, altDegs |-> <<>>, drawn |-> <<>>]

----------------------------------------------------------------------------
(* App: first render *)

Init ==
    /\ phase = "rendered"
    /\ now = Tick
    /\ mode = SKY
    /\ observationalPower = 5
    /\ activeFilters = SpectralType
    /\ visibleCount = 0
    /\ stars = <<>>
    /\ observer = [latitude |-> 45, localSiderealTime |-> 0,
                   lightPollutionLimit |-> 20, isPaused |-> FALSE, timeSpeed |-> 2]
    /\ dpr = 1
    /\ updates = NoUpdates
    /\ observerRef = observer
    /\ transitionRef = [progress |-> PDen, sourceMode |-> mode, targetMode |-> mode,
                        startTime |-> 0]
    /\ lastTimeRef = 0
    /\ animationRef = 0
    /\ rafQueue = <<>>
    /\ events = 0
    /\ frameTime = 0
    /\ framesSinceReset = FALSE
    /\ lastOp = Did("Init")

----------------------------------------------------------------------------
(* Visualizer: effects *)

\* the transition reset without the push of the target to the source
ModeEffect_KeepSource(tr, m, t) ==
    IF m # tr.targetMode
    THEN [tr EXCEPT !.targetMode = m, !.progress = 0, !.startTime = t]
    ELSE tr

\* useEffect(..., [mode]): the transition reset
ModeEffect(tr, m, t) ==
    IF m # tr.targetMode
    THEN [tr EXCEPT !.sourceMode = tr.targetMode,
                    !.targetMode = m,
                    !.progress = 0,
                    !.startTime = t]
    ELSE tr

\* what the render callback of the loop effect closes over
Closure(m, limit, filters, st, d) ==
    [mode |-> m, effectiveLimit |-> limit, activeFilters |-> filters,
     stars |-> st, dpr |-> d]

\* a cleanup that cancels nothing
LoopCleanup_NoCancel(q, held) == q

\* the loop effect's cleanup
LoopCleanup(q, held) == IF held # 0 THEN cancelAnimationFrame(q, held) ELSE q

\* the effects of the first commit, in the order of their declaration; then
\* App's own effect (generateStars, setStars)
Mount ==
    /\ phase = "rendered"
    /\ \E devicePixelRatio \in DevicePixelRatios :
        LET cl == Closure(mode, effectiveLimit(observationalPower, observer.lightPollutionLimit),
                          activeFilters, stars, dpr)
            tr == ModeEffect(transitionRef, mode, now)
        IN  /\ phase' = "mounted"
            /\ observerRef' = observer
            /\ transitionRef' = tr
            /\ updates' = [updates EXCEPT !.dpr = <<devicePixelRatio>>,
                                          !.stars = <<Catalog>>]
            /\ rafQueue' = requestAnimationFrame(rafQueue, animationRef, cl)
            /\ animationRef' = NewHandle(rafQueue, animationRef)
            /\ lastOp' = [Did("Mount") EXCEPT !.modeEffect = "same"]
    /\ UNCHANGED <<now, mode, observationalPower, activeFilters, observer,
                   visibleCount, stars, dpr, lastTimeRef, events, frameTime,
                   framesSinceReset>>

----------------------------------------------------------------------------
(* React: a render applies the queued updates `u` and runs the effects    *)
(* whose dependencies changed: the observerRef effect, the mode effect,   *)
(* the loop effect (cleanup, then a new request with a new closure).      *)

\* the dependency list with the observer in it
LoopDeps_WithObserver(u, newMode, oldLimit, newLimit, newDpr) ==
    \/ u.stars # <<>>
    \/ newMode # mode
    \/ newLimit # oldLimit
    \/ u.activeFilters # <<>>
    \/ newDpr # dpr
    \/ u.observer # <<>>

\* the dependency list without the mode
LoopDeps_WithoutMode(u, newMode, oldLimit, newLimit, newDpr) ==
    \/ u.stars # <<>>
    \/ newLimit # oldLimit
    \/ u.activeFilters # <<>>
    \/ newDpr # dpr

\* the loop effect's dependency list [stars, mode, effectiveLimit,
\* activeFilters, dpr] changed: a queued array is a new array, whatever it
\* holds
LoopDeps(u, newMode, oldLimit, newLimit, newDpr) ==
    \/ u.stars # <<>>
    \/ newMode # mode
    \/ newLimit # oldLimit
    \/ u.activeFilters # <<>>
    \/ newDpr # dpr

\* the observerRef effect left out
ObserverRefEffect_Never(u, newObserver) == observerRef

\* useEffect(() => { observerRef.current = observer }, [observer]): a queued
\* observer is a new object, whatever it holds
ObserverRefEffect(u, newObserver) ==
    IF u.observer # <<>> THEN newObserver ELSE observerRef

Render(u, op) ==
    LET newMode == Latest(u.mode, mode)
        newPower == Latest(u.observationalPower, observationalPower)
        newFilters == Latest(u.activeFilters, activeFilters)
        newStars == Latest(u.stars, stars)
        newDpr == Latest(u.dpr, dpr)
        newObserver == IF u.observer = <<>> THEN observer ELSE u.observer[1].value
        oldLimit == effectiveLimit(observationalPower, observer.lightPollutionLimit)
        newLimit == effectiveLimit(newPower, newObserver.lightPollutionLimit)
        loopDeps == LoopDeps(u, newMode, oldLimit, newLimit, newDpr)
        cleaned == LoopCleanup(rafQueue, animationRef)
        cl == Closure(newMode, newLimit, newFilters, newStars, newDpr)
    IN  /\ mode' = newMode
        /\ observationalPower' = newPower
        /\ activeFilters' = newFilters
        /\ stars' = newStars
        /\ dpr' = newDpr
        /\ observer' = newObserver
        /\ visibleCount' = Latest(u.visibleCount, visibleCount)
        /\ updates' = NoUpdates
        /\ observerRef' = ObserverRefEffect(u, newObserver)
        /\ transitionRef' = IF newMode # mode
                            THEN ModeEffect(transitionRef, newMode, now)
                            ELSE transitionRef
        /\ IF loopDeps
           THEN /\ rafQueue' = requestAnimationFrame(cleaned, animationRef, cl)
                /\ animationRef' = NewHandle(cleaned, animationRef)
           ELSE UNCHANGED <<rafQueue, animationRef>>
        /\ lastOp' = [Did(op) EXCEPT
              !.modeEffect = IF newMode = mode THEN "none"
                             ELSE IF newMode = transitionRef.targetMode THEN "same"
                             ELSE IF transitionRef.progress < PDen THEN "mid"
                             ELSE "idle",
              !.cancelled = loopDeps /\ cleaned # rafQueue,
              !.observerBy = IF u.observer = <<>> THEN "" ELSE u.observer[1].by,
              !.note = IF loopDeps THEN "restart" ELSE ""]
        /\ framesSinceReset' = IF transitionRef' # transitionRef THEN FALSE
                               ELSE framesSinceReset
        /\ UNCHANGED <<phase, now, lastTimeRef, frameTime>>

\* the render React schedules for updates queued outside an event handler
\* (by a frame, by the mount effects)
Commit ==
    /\ phase = "mounted"
    /\ updates # NoUpdates
    /\ Render(updates, "Commit")
    /\ UNCHANGED events

----------------------------------------------------------------------------
(* The user: navigation and controls.  React renders the update of an     *)
(* event handler, and runs the effects of that render, before the handler *)
(* returns control to the host: the event and its render are one step.    *)
(* Updates a frame queued before the event are applied before the         *)
(* event's own.                                                            *)

UserEvent(u, op) ==
    /\ phase = "mounted"
    /\ events < MaxEvents
    /\ events' = events + 1
    /\ Render(u, op)

\* App: onClick={() => setMode(item.id)}
SetMode(m) == UserEvent([updates EXCEPT !.mode = <<m>>], "SetMode")

\* updateObserver built on a fresh observer instead of the current one
updateObserver_ResetsLST(key, value) ==
    /\ mode = SKY \/ mode = CLASSIFICATION
    /\ UserEvent([updates EXCEPT
                    !.observer = << [value |-> [[observer EXCEPT !.localSiderealTime = 0]
                                                  EXCEPT ![key] = value],
                                     by |-> "controls"] >>],
                 "updateObserver")

\* Controls: updateObserver(key, value), on the panel shown in the sky modes
updateObserver(key, value) ==
    /\ mode = SKY \/ mode = CLASSIFICATION
    /\ UserEvent([updates EXCEPT
                    !.observer = << [value |-> [observer EXCEPT ![key] = value],
                                     by |-> "controls"] >>],
                 "updateObserver")

TogglePause == updateObserver("isPaused", ~observer.isPaused)
SetTimeSpeed == \E v \in TimeSpeeds : updateObserver("timeSpeed", v)
SetLatitude == \E v \in Latitudes : updateObserver("latitude", v)
SetLightPollution == \E v \in LightPollutionLimits : updateObserver("lightPollutionLimit", v)

\* Controls: setObservationalPower(value)
SetObservationalPower ==
    \E v \in ObservationalPowers :
        UserEvent([updates EXCEPT !.observationalPower = <<v>>], "SetObservationalPower")

\* App: toggleFilter(type), a functional update, on the buttons shown in
\* Classification and HR Diagram
toggleFilter ==
    /\ mode = CLASSIFICATION \/ mode = HR_DIAGRAM
    /\ \E type \in FilterButtons :
        LET prev == Latest(updates.activeFilters, activeFilters)
        IN  UserEvent([updates EXCEPT !.activeFilters =
                         << IF type \in prev THEN prev \ {type} ELSE prev \cup {type} >>],
                      "toggleFilter")

----------------------------------------------------------------------------
(* Visualizer: the render callback, run by the host for a pending request *)

\* "1. Time & Rotation Update": the frame's delta
Delta(last, time) == time - (IF last = 0 THEN time ELSE last)

\* the advance test without the pause
ShouldAdvance_IgnoresPause(currentObserver, m) == m = SKY

\* the frame advances the sidereal time
ShouldAdvance(currentObserver, m) == ~currentObserver.isPaused /\ m = SKY

\* the callback, the altitudes of its stars drawn from `altitudes`
FrameAt(altitudes) ==
    /\ rafQueue # <<>>
    /\ LET cl == Head(rafQueue).render
           currentObserver == observerRef
       IN  \E lag \in 0..MaxLagTicks, altDegs \in [DOMAIN cl.stars -> altitudes] :
            LET time == now - (lag * Tick)
                delta == Delta(lastTimeRef, time)
                advance == ShouldAdvance(currentObserver, cl.mode)
                tr == TransitionMath(transitionRef, time)
                rest == Tail(rafQueue)
            IN  \* the host's timestamps are positive and never go back
                /\ time > 0
                /\ time >= frameTime
                /\ frameTime' = time
                /\ lastTimeRef' = time
                /\ transitionRef' = tr
                /\ updates' = [updates EXCEPT
                      !.observer = IF advance
                                   THEN << [value |-> [currentObserver EXCEPT
                                               !.localSiderealTime = newLST(currentObserver, delta)],
                                            by |-> "frame"] >>
                                   ELSE @,
                      !.visibleCount = << CountVisible(cl, tr, altDegs) >>]
                /\ rafQueue' = requestAnimationFrame(rest, Head(rafQueue).id, cl)
                /\ animationRef' = NewHandle(rest, Head(rafQueue).id)
                /\ framesSinceReset' = TRUE
                /\ lastOp' = [Did("Frame") EXCEPT
                      !.note = IF lastTimeRef = 0 THEN "first"
                               ELSE IF transitionRef.progress < PDen THEN "eased" ELSE "",
                      !.observerBy = IF advance THEN "frame" ELSE "",
                      !.wrapped = advance /\ currentObserver.localSiderealTime
                                     + (delta * 5 * currentObserver.timeSpeed) >= 360000,
                      !.altDegs = altDegs,
                      !.drawn = DrawCommands(cl, tr, altDegs)]
    /\ UNCHANGED <<phase, now, mode, observationalPower, activeFilters, observer,
                   visibleCount, stars, dpr, observerRef, events>>

Frame == FrameAt(AltDegs)

----------------------------------------------------------------------------
(* Time passes *)

AdvanceClock ==
    /\ \E d \in ClockSteps :
          /\ now + d <= MaxTime
          /\ now' = now + d
    /\ lastOp' = Did("AdvanceClock")
    /\ UNCHANGED <<phase, mode, observationalPower, activeFilters, observer,
                   visibleCount, stars, dpr, updates, observerRef, transitionRef,
                   lastTimeRef, animationRef, rafQueue, events, frameTime,
                   framesSinceReset>>

----------------------------------------------------------------------------
(* Teardown: the loop effect's cleanup *)

Unmount ==
    /\ phase = "mounted"
    /\ phase' = "unmounted"
    /\ rafQueue' = LoopCleanup(rafQueue, animationRef)
    /\ lastOp' = [Did("Unmount") EXCEPT !.cancelled = (LoopCleanup(rafQueue, animationRef) # rafQueue)]
    /\ UNCHANGED <<now, mode, observationalPower, activeFilters, observer,
                   visibleCount, stars, dpr, updates, observerRef, transitionRef,
                   lastTimeRef, animationRef, events, frameTime, framesSinceReset>>

----------------------------------------------------------------------------

Next ==
    \/ Mount
    \/ \E m \in navItems : SetMode(m)
    \/ TogglePause
    \/ SetTimeSpeed
    \/ SetLatitude
    \/ SetLightPollution
    \/ SetObservationalPower
    \/ toggleFilter
    \/ Commit
    \/ Frame
    \/ AdvanceClock
    \/ Unmount

Spec == Init /\ [][Next]_vars

----------------------------------------------------------------------------
(* One frame of the render callback, from the states a mounted Visualizer *)
(* can be in when the host runs a pending request: any mode, idle or in a *)
(* transition from any other mode, a catalog with stars on both sides of  *)
(* the magnitude limit, and altitudes over the whole range of Math.asin.  *)

\* the catalog: sorted ascending by apparentMagnitude
FrameCatalog == << [id |-> 0, spectralType |-> "G", apparentMagnitude |-> 3000],
                   [id |-> 1, spectralType |-> "M", apparentMagnitude |-> 3600],
                   [id |-> 2, spectralType |-> "K", apparentMagnitude |-> 6000] >>
\* observationalPower: the initial value (naked eye) and a preset
FramePowers == {5, 35}
FrameFilters == {SpectralType, SpectralType \ {"M"}}
\* altitudes, degrees: the range of Math.asin, and NaN
SkyAltDegs == {-90, -20, -10, -3, 0, 20, 30, NaN}
\* the time of the latest mode request, if there was one
FrameStartTime == 2 * Tick
\* performance.now() when the frame runs
FrameNows == {FrameStartTime + (k * Tick) : k \in 0..TicksPerTransition}

\* the transition states of a Visualizer whose mode is m: no mode was ever
\* requested; or m was requested when the target was another mode, and no
\* frame of that transition has completed it (progress is recomputed by
\* every such frame), or one has
FrameTransitions(m, t) ==
    { [progress |-> PDen, sourceMode |-> m, targetMode |-> m, startTime |-> 0] }
    \cup { [progress |-> p, sourceMode |-> src, targetMode |-> m,
            startTime |-> FrameStartTime] :
              src \in navItems \ {m},
              p \in {0} \cup (IF t >= FrameStartTime + duration THEN {PDen} ELSE {}) }

InitFrame ==
    /\ phase = "mounted"
    /\ now \in FrameNows
    /\ mode \in navItems
    /\ observationalPower \in FramePowers
    /\ activeFilters \in FrameFilters
    /\ visibleCount = 0
    /\ stars = FrameCatalog
    /\ observer = [latitude |-> 45, localSiderealTime |-> 0,
                   lightPollutionLimit |-> 20, isPaused |-> FALSE, timeSpeed |-> 2]
    /\ dpr = 1
    /\ updates = NoUpdates
    /\ observerRef = observer
    /\ transitionRef \in FrameTransitions(mode, now)
    /\ lastTimeRef = 0
    /\ animationRef = 1
    /\ rafQueue = << [id |-> 1,
                      render |-> Closure(mode,
                                         effectiveLimit(observationalPower,
                                                        observer.lightPollutionLimit),
                                         activeFilters, stars, dpr)] >>
    /\ events = 0
    /\ frameTime = 0
    /\ framesSinceReset = FALSE
    /\ lastOp = Did("Init")

\* the host runs the pending request
OneFrame ==
    /\ lastOp.op = "Init"
    /\ FrameAt(SkyAltDegs)

NextFrame == OneFrame

SpecFrame == InitFrame /\ [][NextFrame]_vars

----------------------------------------------------------------------------
(* The star generator (src/services/starGen.ts), run by App's mount       *)
(* effect.  Math.random() is an input.  Units: a logarithm is kept in     *)
(* 1e-4, a magnitude in thousandths.  A luminosity spans ten orders of    *)
(* magnitude, so it is kept as its base-10 logarithm: Math.pow(x, 7)      *)
(* multiplies the logarithm by 7, a product adds logarithms, and          *)
(* Math.log10(Math.pow(10, e)) is e.  hrX is kept in HrXOne-ths, hrY in   *)
(* HrYOne-ths.                                                            *)

\* TOTAL_STARS of the model
TotalStars == 2

\* SPECTRAL_WEIGHTS, the weights in 1e-5
SPECTRAL_WEIGHTS ==
    << [type |-> "O", weight |-> 3,     minTemp |-> 30000, maxTemp |-> 50000],
       [type |-> "B", weight |-> 130,   minTemp |-> 10000, maxTemp |-> 30000],
       [type |-> "A", weight |-> 600,   minTemp |-> 7500,  maxTemp |-> 10000],
       [type |-> "F", weight |-> 3000,  minTemp |-> 6000,  maxTemp |-> 7500],
       [type |-> "G", weight |-> 7600,  minTemp |-> 5200,  maxTemp |-> 6000],
       [type |-> "K", weight |-> 12100, minTemp |-> 3700,  maxTemp |-> 5200],
       [type |-> "M", weight |-> 76450, minTemp |-> 2400,  maxTemp |-> 3700] >>

\* Math.random() for the spectral class, in 1e-5: one value in the span of
\* each class, and one past the sum of the weights (the fallback)
ClassRandoms == {0, 3, 133, 733, 3733, 11333, 23433, 99999}
\* Math.random() of a randomRange, in halves: 0, 1/2, and 1 (the bound it
\* approaches and, rounded, reaches)
RangeRandoms == {0, 1, 2}

\* the walk of the weight table: the class a random value selects
RECURSIVE WalkWeights(_, _)
WalkWeights(rand, k) ==
    IF k > Len(SPECTRAL_WEIGHTS) THEN SPECTRAL_WEIGHTS[Len(SPECTRAL_WEIGHTS)]
    ELSE IF rand < SPECTRAL_WEIGHTS[k].weight THEN SPECTRAL_WEIGHTS[k]
    ELSE WalkWeights(rand - SPECTRAL_WEIGHTS[k].weight, k + 1)

\* randomRange(min, max) for a Math.random() of u halves
randomRange(min, max, u) == ((u * (max - min)) \div 2) + min

\* Math.log10 of a temperature, rounded to 1e-4, on the temperatures
\* randomRange yields for RangeRandoms, and on the Sun's
log10(x) ==
    CASE x = 2400 -> 33802 [] x = 3050 -> 34843 [] x = 3700 -> 35682
      [] x = 4450 -> 36484 [] x = 5200 -> 37160 [] x = 5600 -> 37482
      [] x = 6000 -> 37782 [] x = 6750 -> 38293 [] x = 7500 -> 38751
      [] x = 8750 -> 39420 [] x = 10000 -> 40000 [] x = 20000 -> 43010
      [] x = 30000 -> 44771 [] x = 40000 -> 46021 [] x = 50000 -> 46990
      [] x = 5778 -> 37618

\* Math.log10 of randomRange(0.5, 1.5) for a Math.random() of u halves
\* (0.5, 1.0, 1.5), rounded to 1e-4
log10Scatter(u) == CASE u = 0 -> -3010 [] u = 1 -> 0 [] u = 2 -> 1761

\* the denominators of hrX and hrY: (4.7 - 3.3) / 2 and (6 - (-4)) / 2
HrXOne == 7000
HrYOne == 50000

\* one iteration of the loop of generateStars: the star pushed
generateStar(i, draw) ==
    LET typeData == WalkWeights(draw.rand, 1)
        temperature == randomRange(typeData.minTemp, typeData.maxTemp, draw.temp)
        \* log10 of normalizedTemp^7 * randomRange(0.5, 1.5)
        logLum == (7 * (log10(temperature) - log10(5778))) + log10Scatter(draw.scatter)
        \* log10 of distancePc = 10^randomRange(0, 3.8)
        logDistance == randomRange(0, 38000, draw.distance)
        absMag == 4830 - ((25 * logLum) \div 100)
        appMag == absMag + ((5 * (logDistance - 10000)) \div 10)
        logTemp == log10(temperature)
        hrX == 0 - ((logTemp - 33000) - HrXOne)
        hrY == (logLum + 40000) - HrYOne
    IN  [id |-> i, spectralType |-> typeData.type, temperature |-> temperature,
         logLuminosity |-> logLum, hrX |-> hrX, hrY |-> 0 - hrY,
         apparentMagnitude |-> appMag, absoluteMagnitude |-> absMag]

\* the random numbers of one iteration
RandomDraws == [rand : ClassRandoms, temp : RangeRandoms, scatter : RangeRandoms,
                distance : RangeRandoms]

\* generateStars: the loop, then the sort by apparentMagnitude
generateStars(draws) ==
    SortSeq([i \in 1..TotalStars |-> generateStar(i - 1, draws[i])],
            LAMBDA a, b : a.apparentMagnitude < b.apparentMagnitude)

\* App: useEffect(() => { setStars(generateStars()) }, [])
GenerateStars ==
    /\ phase = "rendered"
    /\ updates.stars = <<>>
    /\ \E draws \in [1..TotalStars -> RandomDraws] :
          updates' = [updates EXCEPT !.stars = << generateStars(draws) >>]
    /\ lastOp' = Did("generateStars")
    /\ UNCHANGED <<phase, now, mode, observationalPower, activeFilters, observer,
                   visibleCount, stars, dpr, observerRef, transitionRef,
                   lastTimeRef, animationRef, rafQueue, events, frameTime,
                   framesSinceReset>>

NextGen == GenerateStars

SpecGen == Init /\ [][NextGen]_vars

----------------------------------------------------------------------------
(* Properties *)

progress == transitionRef.progress
RenderOps == {"Commit", "SetMode", "updateObserver", "SetObservationalPower",
              "toggleFilter"}
UserOps == RenderOps \ {"Commit"}

\* C1: a render whose mode is the current targetMode (the same mode was
\* requested, or none) leaves sourceMode, targetMode, progress and startTime
\* unchanged; a render whose mode differs from targetMode, idle or
\* mid-transition, makes the previous targetMode the sourceMode, the
\* requested mode the targetMode and sets progress to 0 (startTime to now).
C1_RequestSemantics ==
    [][lastOp'.op \in RenderOps =>
         IF mode' = transitionRef.targetMode
         THEN transitionRef' = transitionRef
         ELSE transitionRef' = [transitionRef EXCEPT
                                  !.sourceMode = transitionRef.targetMode,
                                  !.targetMode = mode',
                                  !.progress = 0,
                                  !.startTime = now]]_vars

\* a new mode was requested while a transition was in progress
C1_Witness ==
    /\ lastOp.op = "SetMode"
    /\ lastOp.modeEffect = "mid"
    /\ progress = 0
    /\ transitionRef.sourceMode # SKY

\* C2: in every reachable state the stored progress is in [0,1].
C2_ProgressInUnitInterval == 0 <= progress /\ progress <= PDen

C4_TransitionCompletes ==
    [][/\ lastOp'.op = "Frame" =>
            /\ framesSinceReset => transitionRef'.progress >= progress
            /\ frameTime' - transitionRef.startTime >= duration
                   => transitionRef'.progress = PDen
            /\ transitionRef'.sourceMode = transitionRef.sourceMode
            /\ transitionRef'.targetMode = transitionRef.targetMode
            /\ transitionRef'.startTime = transitionRef.startTime
       /\ (progress = PDen /\ transitionRef'.progress # PDen) =>
            /\ lastOp'.op \in RenderOps
            /\ mode' # mode
            /\ transitionRef'.progress = 0]_vars

\* a frame of a transition, after an earlier frame of it, 1500 ms or more
\* after the request: progress has reached 1
C4_Witness ==
    /\ lastOp.op = "Frame"
    /\ lastOp.note = "eased"
    /\ transitionRef.startTime > 0
    /\ frameTime - transitionRef.startTime >= duration
    /\ progress = PDen

\* C5: the stored localSiderealTime changes only when a render applies a
\* value the frame loop wrote; no control update changes it.
C5_LoopSoleWriterOfLST ==
    [][observer'.localSiderealTime # observer.localSiderealTime =>
         /\ lastOp'.op \in RenderOps
         /\ lastOp'.observerBy = "frame"
         /\ updates.observer # <<>>
         /\ updates.observer[1].by = "frame"
         /\ observer' = updates.observer[1].value]_vars

\* a control update was applied after the sidereal time had advanced
C5_Witness ==
    /\ lastOp.op = "updateObserver"
    /\ lastOp.observerBy = "controls"
    /\ observer.localSiderealTime # 0

\* C6 as stated: a change of the requested mode, of observationalPower, of
\* activeFilters or of an observer setting (with no new catalog or pixel
\* ratio applied by the same render) does not cancel the pending request.
C6_NoRestartOnParameterChange ==
    [][(lastOp'.op \in UserOps /\ updates.stars = <<>> /\ updates.dpr = <<>>) =>
         (~lastOp'.cancelled /\ rafQueue' = rafQueue)]_vars

\* C7: a render that applies only what frames wrote back (the sidereal time,
\* the visible count) leaves the pending request and its handle as they are.
C7_WriteBackNoRestart ==
    [][(lastOp'.op = "Commit" /\ updates.stars = <<>> /\ updates.dpr = <<>>) =>
         /\ rafQueue' = rafQueue
         /\ animationRef' = animationRef
         /\ ~lastOp'.cancelled
         /\ lastOp'.note = ""]_vars

\* a render applied a frame's sidereal time and the loop was not restarted
C7_Witness ==
    /\ lastOp.op = "Commit"
    /\ lastOp.observerBy = "frame"
    /\ lastOp.note = ""
    /\ observer.localSiderealTime # 0
    /\ rafQueue # <<>>

\* C8 as stated: a pending request is cancelled only by the teardown, and
\* after the teardown no request is pending.
C8_CancellationOnlyAtTeardown ==
    /\ lastOp.cancelled => lastOp.op = "Unmount"
    /\ phase = "unmounted" => rafQueue = <<>>

\* C9: a frame leaves the stored observer as it is; when the observer is not
\* paused and the mode is Sky it queues the observer with localSiderealTime
\* advanced by delta x 0.01 x timeSpeed modulo 360, delta being the time since
\* the previous frame, whatever that frame did (0 on the first frame);
\* otherwise it queues no observer at all.
C9_FrameAdvancesLST ==
    [][lastOp'.op = "Frame" =>
         LET delta == IF frameTime = 0 THEN 0 ELSE frameTime' - frameTime
         IN  /\ observer' = observer
             /\ IF ~observer.isPaused /\ mode = SKY
                THEN updates'.observer =
                       << [value |-> [observer EXCEPT !.localSiderealTime =
                                        (observer.localSiderealTime
                                           + (delta * 5 * observer.timeSpeed)) % 360000],
                           by |-> "frame"] >>
                ELSE updates'.observer = updates.observer]_vars

\* after two events that left the observer unpaused in Sky at the initial
\* speed (a pause and its release, a mode left and re-entered), a frame
\* advanced the sidereal time
C9_Witness ==
    /\ lastOp.op = "Frame"
    /\ lastOp.observerBy = "frame"
    /\ events = 2
    /\ mode = SKY
    /\ ~observer.isPaused
    /\ observer.timeSpeed = 2
    /\ updates.observer[1].value.localSiderealTime # observer.localSiderealTime

LSTInRange(obs) == 0 <= obs.localSiderealTime /\ obs.localSiderealTime < 360000

\* C10: localSiderealTime is in [0,360) in the stored observer, in the copy
\* the loop reads and in every queued observer.
C10_LSTInRange ==
    /\ LSTInRange(observer)
    /\ LSTInRange(observerRef)
    /\ updates.observer # <<>> => LSTInRange(updates.observer[1].value)

\* a frame's sidereal time passed 360 degrees and was wrapped
C10_Witness ==
    /\ lastOp.op = "Frame"
    /\ lastOp.wrapped
    /\ updates.observer # <<>>
    /\ updates.observer[1].value.localSiderealTime < observer.localSiderealTime

----------------------------------------------------------------------------
(* Properties of the star loop, read off the state a frame leaves: the    *)
(* request it re-issued holds its closure, transitionRef the progress it  *)
(* used, lastOp the altitudes and the draw calls.                         *)

AfterFrame == lastOp.op = "Frame"
\* the closure of the frame that ran last
frameClosure == rafQueue[Len(rafQueue)].render
DrawnIds == {lastOp.drawn[k].id : k \in DOMAIN lastOp.drawn}
\* the star was drawn with a positive alpha
DrawnVisibly(star) ==
    \E k \in DOMAIN lastOp.drawn :
        lastOp.drawn[k].id = star.id /\ lastOp.drawn[k].globalAlpha > 0
HorizonModes == {SKY, CLASSIFICATION}
\* the star is an active one strictly below effectiveLimit - 1
WellBelowLimit(star) ==
    /\ star.spectralType \in frameClosure.activeFilters
    /\ star.apparentMagnitude < frameClosure.effectiveLimit - 1000
\* the stars the global filter checks let through
PassFilterChecks ==
    {i \in DOMAIN frameClosure.stars :
        /\ frameClosure.stars[i].spectralType \in frameClosure.activeFilters
        /\ frameClosure.stars[i].apparentMagnitude <= frameClosure.effectiveLimit}

\* C11 as stated: in every frame a star with apparentMagnitude >
\* effectiveLimit is neither drawn nor counted, and an active star strictly
\* below effectiveLimit - 1 is drawn with alpha > 0, whatever the mode, the
\* transition and the observer.
C11_IncludedBelowLimit ==
    AfterFrame =>
        /\ \A i \in DOMAIN frameClosure.stars :
              LET star == frameClosure.stars[i]
              IN  /\ star.apparentMagnitude > frameClosure.effectiveLimit
                        => star.id \notin DrawnIds
                  /\ WellBelowLimit(star) => DrawnVisibly(star)
        /\ updates.visibleCount[1] <= Cardinality(PassFilterChecks)

\* C11 amended: a star with apparentMagnitude > effectiveLimit is neither
\* drawn nor counted; an active star strictly below effectiveLimit - 1 is
\* drawn with alpha > 0 exactly when the horizon terms let it through: it is
\* not hard-culled (altitude < -5 in Sky or Classification with no transition
\* in progress) and its extinction factor times its horizon fade is positive.
\* That is so whenever its altitude is 30 degrees or more (or NaN), and
\* whenever its altitude is 0 or more in Sky or Classification.
C11_IncludedAboveHorizon ==
    AfterFrame =>
        /\ \A i \in DOMAIN frameClosure.stars :
              LET star == frameClosure.stars[i]
                  altDeg == lastOp.altDegs[i]
                  culled == /\ progress >= PDen
                            /\ frameClosure.mode \in HorizonModes
                            /\ altDeg # NaN
                            /\ altDeg < -5
                  horizonTerms == extinctionFactor(frameClosure.mode, transitionRef, altDeg)
                                    * horizonFade(frameClosure.mode, transitionRef, altDeg)
              IN  /\ star.apparentMagnitude > frameClosure.effectiveLimit
                        => star.id \notin DrawnIds
                  /\ WellBelowLimit(star) =>
                        /\ DrawnVisibly(star) <=> (~culled /\ horizonTerms > 0)
                        /\ (altDeg = NaN \/ altDeg >= 30) => DrawnVisibly(star)
                        /\ (altDeg # NaN /\ altDeg >= 0 /\ frameClosure.mode \in HorizonModes)
                              => DrawnVisibly(star)
        /\ updates.visibleCount[1] <= Cardinality(PassFilterChecks)

\* a frame in Sky: of two active stars strictly below effectiveLimit - 1 the
\* one at 30 degrees was drawn and the one 10 degrees below the horizon was
\* not; the star above the limit, at 30 degrees, was not
C11_Witness ==
    /\ AfterFrame
    /\ frameClosure.mode = SKY
    /\ frameClosure.effectiveLimit = 5150
    /\ frameClosure.activeFilters = SpectralType
    /\ lastOp.altDegs = <<30, -10, 30>>
    /\ DrawnIds = {0}
    /\ updates.visibleCount = <<1>>

\* the frame ran with observationalPower 0.05 and lightPollutionLimit 0.2
NakedEyeFrame ==
    /\ AfterFrame
    /\ observationalPower = 5
    /\ observer.lightPollutionLimit = 20
\* extinction and horizon fade leave the alpha of a star at this altitude
\* as the magnitude fade made it
NoHorizonTerms(altDeg) == altDeg = NaN \/ altDeg >= 30

\* C12 as stated: with observationalPower 0.05 and lightPollutionLimit 0.2
\* effectiveLimit is 3.6, a star of magnitude 3.0 is drawn with a magnitude
\* fade of 1 (alpha 1 where no horizon term applies), and a star of magnitude
\* 6.0 is excluded.
C12_FullAlphaAtMagnitude3 ==
    /\ effectiveLimit(5, 20) = 3600
    /\ NakedEyeFrame =>
          /\ frameClosure.effectiveLimit = 3600
          /\ \A i \in DOMAIN frameClosure.stars :
                LET star == frameClosure.stars[i]
                IN  /\ star.apparentMagnitude = 6000 => star.id \notin DrawnIds
                    /\ (/\ star.apparentMagnitude = 3000
                         /\ star.spectralType \in frameClosure.activeFilters
                         /\ NoHorizonTerms(lastOp.altDegs[i])) =>
                          \E k \in DOMAIN lastOp.drawn :
                              /\ lastOp.drawn[k].id = star.id
                              /\ lastOp.drawn[k].globalAlpha = AlphaOne

\* C12 amended: with observationalPower 0.05 and lightPollutionLimit 0.2
\* effectiveLimit is 3.6; a star of magnitude 3.0 lies in the last magnitude
\* below the limit, so its magnitude fade is 3.6 - 3.0 = 0.6: it is drawn
\* with alpha 0.6 where no horizon term applies, and with a positive alpha
\* at any altitude of 0 or more in Sky or Classification; a star of
\* magnitude 6.0 is excluded.
C12_NakedEyeScenario ==
    /\ effectiveLimit(5, 20) = 3600
    /\ NakedEyeFrame =>
          /\ frameClosure.effectiveLimit = 3600
          /\ \A i \in DOMAIN frameClosure.stars :
                LET star == frameClosure.stars[i]
                    altDeg == lastOp.altDegs[i]
                    active == star.spectralType \in frameClosure.activeFilters
                IN  /\ star.apparentMagnitude = 6000 => star.id \notin DrawnIds
                    /\ (star.apparentMagnitude = 3000 /\ active /\ NoHorizonTerms(altDeg)) =>
                          \E k \in DOMAIN lastOp.drawn :
                              /\ lastOp.drawn[k].id = star.id
                              /\ lastOp.drawn[k].globalAlpha * 5 = 3 * AlphaOne
                    /\ (/\ star.apparentMagnitude = 3000
                         /\ active
                         /\ altDeg # NaN
                         /\ altDeg >= 0
                         /\ frameClosure.mode \in HorizonModes) => DrawnVisibly(star)

\* a naked-eye frame drew the star of magnitude 3.0, 30 degrees up, with
\* alpha 0.6 and left out the star of magnitude 6.0, also 30 degrees up
C12_Witness ==
    /\ NakedEyeFrame
    /\ frameClosure.stars[1].apparentMagnitude = 3000
    /\ frameClosure.stars[3].apparentMagnitude = 6000
    /\ lastOp.altDegs[1] = 30
    /\ lastOp.altDegs[3] = 30
    /\ \E k \in DOMAIN lastOp.drawn :
          /\ lastOp.drawn[k].id = frameClosure.stars[1].id
          /\ lastOp.drawn[k].globalAlpha * 5 = 3 * AlphaOne
    /\ frameClosure.stars[3].id \notin DrawnIds

\* C13: the visible count a frame reports (setStats) is the number of draw
\* calls the frame made, each star is drawn at most once and with a positive
\* alpha, and a star removed by the filter check, the magnitude check or the
\* horizon cull, or whose final alpha (magnitude fade x extinction x horizon
\* fade) is <= 0, is not drawn.
C13_CountEqualsDrawn ==
    AfterFrame =>
        /\ updates.visibleCount = << Len(lastOp.drawn) >>
        /\ \A k \in DOMAIN lastOp.drawn : lastOp.drawn[k].globalAlpha > 0
        /\ \A j, k \in DOMAIN lastOp.drawn :
              lastOp.drawn[j].id = lastOp.drawn[k].id => j = k
        /\ \A i \in DOMAIN frameClosure.stars :
              LET star == frameClosure.stars[i]
                  altDeg == lastOp.altDegs[i]
              IN  (\/ star.spectralType \notin frameClosure.activeFilters
                   \/ star.apparentMagnitude > frameClosure.effectiveLimit
                   \/ /\ progress >= PDen
                      /\ frameClosure.mode \in HorizonModes
                      /\ altDeg # NaN
                      /\ altDeg < -5
                   \/ alpha(star, frameClosure, transitionRef, altDeg) <= 0)
                      => star.id \notin DrawnIds

\* a frame in which two stars passed the filter and magnitude checks, both 30
\* degrees up: the one at the limit had alpha 0 and was neither drawn nor
\* counted, the other was drawn and counted
C13_Witness ==
    /\ AfterFrame
    /\ frameClosure.effectiveLimit = 3600
    /\ PassFilterChecks = {1, 2}
    /\ lastOp.altDegs[1] = 30
    /\ lastOp.altDegs[2] = 30
    /\ DrawnIds = {frameClosure.stars[1].id}
    /\ updates.visibleCount = <<1>>

\* the catalog generateStars returned
generated == updates.stars[1]

\* C14 as stated: every generated star has hrX and hrY in [-1,1] and a
\* finite apparentMagnitude (here: a number, its logarithms taken of
\* positive arguments).
C14_HRCoordinatesInRange ==
    updates.stars # <<>> =>
        \A i \in DOMAIN generated :
            /\ 0 - HrXOne <= generated[i].hrX /\ generated[i].hrX <= HrXOne
            /\ 0 - HrYOne <= generated[i].hrY /\ generated[i].hrY <= HrYOne
            /\ generated[i].apparentMagnitude \in Int

\* C15 as stated: a star whose altitude came out NaN in a frame is neither
\* drawn nor counted in that frame, and the other stars of the frame are
\* processed as they would be without it.
C15_NaNStarSkipped ==
    AfterFrame =>
        LET numbers == {i \in DOMAIN frameClosure.stars : lastOp.altDegs[i] # NaN}
            processed == {i \in numbers :
                            Drawn(frameClosure.stars[i], frameClosure, transitionRef,
                                  lastOp.altDegs[i])}
        IN  /\ \A i \in DOMAIN frameClosure.stars :
                  lastOp.altDegs[i] = NaN => frameClosure.stars[i].id \notin DrawnIds
            /\ DrawnIds = {frameClosure.stars[i].id : i \in processed}
            /\ updates.visibleCount = << Cardinality(processed) >>

\* (1 - 0.7e) + 0.7e * progress for e = max(0, (30 - altitude) / 30), in
\* (300 * PDen)-ths
BlendedExtinction(altDeg) ==
    LET full == IF altDeg # NaN /\ altDeg < 30 THEN 300 - (7 * (30 - altDeg)) ELSE 300
    IN  (full * PDen) + ((300 - full) * progress)

\* the alpha a frame in Galaxy or HR Diagram gives a star that passed the
\* filter checks, were its extinction factor the blended one (no horizon
\* fade applies in these modes)
BlendedAlpha(star, altDeg) ==
    magnitudeFade(star, frameClosure.effectiveLimit) * BlendedExtinction(altDeg) * 5

\* C16 as stated: in every frame of a transition from Sky or from
\* Classification to Galaxy or HR Diagram the extinction factor in a star's
\* alpha is (1 - 0.7e) + 0.7e * progress, whichever of the two the source is.
C16_ExtinctionBlendedFromEitherSource ==
    (/\ AfterFrame
     /\ frameClosure.mode \in {GALAXY, HR_DIAGRAM}
     /\ transitionRef.sourceMode \in HorizonModes) =>
        \A i \in PassFilterChecks :
            LET star == frameClosure.stars[i]
                expected == BlendedAlpha(star, lastOp.altDegs[i])
            IN  IF expected > 0
                THEN \E k \in DOMAIN lastOp.drawn :
                        /\ lastOp.drawn[k].id = star.id
                        /\ lastOp.drawn[k].globalAlpha = expected
                ELSE star.id \notin DrawnIds

\* C17: the alpha of every draw call is in (0,1]; for every star that passed
\* the filter and magnitude checks the product of magnitude fade, extinction
\* factor and horizon fade is at most 1, and a star whose product is <= 0
\* (a negative extinction factor well below the horizon included) is not
\* drawn.
C17_AlphaInUnitInterval ==
    AfterFrame =>
        /\ \A k \in DOMAIN lastOp.drawn :
              0 < lastOp.drawn[k].globalAlpha /\ lastOp.drawn[k].globalAlpha <= AlphaOne
        /\ \A i \in PassFilterChecks :
              LET star == frameClosure.stars[i]
                  altDeg == lastOp.altDegs[i]
                  product == magnitudeFade(star, frameClosure.effectiveLimit)
                               * extinctionFactor(frameClosure.mode, transitionRef, altDeg)
                               * horizonFade(frameClosure.mode, transitionRef, altDeg)
              IN  /\ product <= AlphaOne
                  /\ product <= 0 => star.id \notin DrawnIds

\* a frame of a transition to Classification (no cull, no horizon fade): the
\* star at the nadir has a negative extinction factor and was not drawn, the
\* star 30 degrees up was drawn with alpha 1
C17_Witness ==
    /\ AfterFrame
    /\ frameClosure.mode = CLASSIFICATION
    /\ progress < PDen
    /\ PassFilterChecks = {1, 2}
    /\ lastOp.altDegs[1] = 30
    /\ lastOp.altDegs[2] = -90
    /\ extinctionFactor(frameClosure.mode, transitionRef, lastOp.altDegs[2]) < 0
    /\ lastOp.drawn = << [id |-> frameClosure.stars[1].id, globalAlpha |-> AlphaOne,
                          arc |-> "number"] >>

----------------------------------------------------------------------------
(* Properties of the loop under interleavings of events, renders and      *)
(* frames                                                                 *)

\* C18: the mode every pending frame callback closes over, and so the mode
\* every frame that runs uses for its decisions, is transitionRef.targetMode
\* (and the application's current mode).
C18_FrameModeIsTarget ==
    /\ \A i \in DOMAIN rafQueue :
          /\ rafQueue[i].render.mode = transitionRef.targetMode
          /\ rafQueue[i].render.mode = mode
    /\ AfterFrame => frameClosure.mode = transitionRef.targetMode

\* two different modes were requested in a row, the second while the first
\* transition was in progress, and a frame then ran with the second
C18_Witness ==
    /\ AfterFrame
    /\ lastOp.note = "eased"
    /\ events = 2
    /\ transitionRef.sourceMode # SKY
    /\ transitionRef.targetMode # SKY
    /\ frameClosure.mode = transitionRef.targetMode

\* the observer settings the controls edit
ControlFields(obs) == [latitude |-> obs.latitude, isPaused |-> obs.isPaused,
                       timeSpeed |-> obs.timeSpeed,
                       lightPollutionLimit |-> obs.lightPollutionLimit]

C20_OnePendingFrame ==
    /\ Len(rafQueue) <= 1
    /\ rafQueue # <<>> => rafQueue[1].id = animationRef
    /\ phase = "unmounted" => rafQueue = <<>>

\* after frames had run, a second parameter change restarted the loop: the
\* pending callback was cancelled and exactly one is pending again
C20_Witness ==
    /\ lastOp.op \in UserOps
    /\ lastOp.note = "restart"
    /\ lastOp.cancelled
    /\ events = 2
    /\ frameTime > 0
    /\ Len(rafQueue) = 1

====
